---- MODULE Spec2Model ----
(***************************************************************************)
(* Layered graph layout of rs_graph_layout (src/src/graph_layout.rs).      *)
(*                                                                         *)
(* GraphLayout::create_layers builds a StableDiGraph from the edge list,   *)
(* splits it into sub graphs, runs align_nodes on each sub graph and       *)
(* finally emits the coordinates with build_layout.                        *)
(*                                                                         *)
(* Library behaviour the model relies on (petgraph, not part of the        *)
(* repository):                                                            *)
(*  - StableDiGraph::from_edges creates exactly the nodes that are an      *)
(*    endpoint of an edge; indices in between stay vacant.                 *)
(*  - toposort returns some topological order, or an error on a cycle.     *)
(*    The model lets it return any topological order.                      *)
(*  - node_identifiers of a StableDiGraph iterates in ascending index.     *)
(* All indices (levels, columns) are 0-based as in the source; At/Put      *)
(* translate to the 1-based sequences of TLA+.                             *)
(***************************************************************************)
EXTENDS Integers, Sequences, FiniteSets, TLC

\* ---------------------------------------------------------------- bounds
NumNodes == 4
MaxEdges == 3
MaxNodeSize == 2
MaxNegNodeSize == 1
NumNodesCross == 5
MaxEdgesCross == 4
FanMiddle == 3
FanLeaves == 2
CallLen == 4
MaxLayers == 5
MaxDegree == 2
MaxAmount == 1

\* ----------------------------------------------------- program constants
Rounds == 10
CrossPasses == 2
SlidePasses == 2
SeparationFactor == 4
Tries == 100

\* Option::None in a slot of a level
NONE == -1

Nodes == 0 .. (NumNodes - 1)
AllEdges == Nodes \X Nodes

\* ------------------------------------------------------- generic helpers
At(s, i) == s[i + 1]
Put(s, i, v) == [s EXCEPT ![i + 1] = v]
RemoveAt(s, i) == SubSeq(s, 1, i) \o SubSeq(s, i + 2, Len(s))
Nones(k) == [i \in 1 .. k |-> NONE]
Range(s) == {s[i] : i \in DOMAIN s}
Max(S) == CHOOSE x \in S : \A y \in S : y <= x
Min(S) == CHOOSE x \in S : \A y \in S : x <= y
Insert(f, k, v) == [x \in (DOMAIN f) \cup {k} |-> IF x = k THEN v ELSE f[x]]
EmptyMap == [x \in {} |-> 0]

RECURSIVE SetsUpTo(_)
SetsUpTo(k) ==
    IF k = 0 THEN {{}}
    ELSE LET S == SetsUpTo(k - 1)
         IN  S \cup {s \cup {e} : s \in S, e \in AllEdges}

\* ascending sequence of a set of integers
RECURSIVE Ascending(_)
Ascending(S) ==
    IF S = {} THEN <<>>
    ELSE LET m == Min(S) IN <<m>> \o Ascending(S \ {m})

Reverse(s) == [i \in 1 .. Len(s) |-> s[Len(s) + 1 - i]]

RECURSIVE Perms(_)
Perms(S) ==
    IF S = {} THEN {<<>>}
    ELSE UNION {{<<x>> \o p : p \in Perms(S \ {x})} : x \in S}

\* ------------------------------------------------------ petgraph helpers
\* A graph is the set of its edges <<tail, head>>.
NodesOf(G) == {e[1] : e \in G} \cup {e[2] : e \in G}
Successors(G, n) == {e[2] : e \in {x \in G : x[1] = n}}
Predecessors(G, n) == {e[1] : e \in {x \in G : x[2] = n}}
NeighborsUndirected(G, n) == Successors(G, n) \cup Predecessors(G, n)

PosIn(s, x) == CHOOSE i \in DOMAIN s : s[i] = x

\* variant: a sort that does not notice cycles
TopoOrdersOn_unchecked(V, G) == Perms(V)

\* toposort of the graph with node set V and edge set G
TopoOrdersOn(V, G) ==
    {p \in Perms(V) : \A e \in G : e[1] # e[2] /\ PosIn(p, e[1]) < PosIn(p, e[2])}

TopoOrders(G) == TopoOrdersOn(NodesOf(G), G)

IsAcyclic(G) == TopoOrders(G) # {}

\* ------------------------------------- into_weakly_connected_components
RECURSIVE Traverse(_, _, _, _)
Traverse(G, sources, visited, subgraph_edges) ==
    IF sources = <<>> THEN [visited |-> visited, edges |-> subgraph_edges]
    ELSE LET source == sources[Len(sources)]
             rest == SubSeq(sources, 1, Len(sources) - 1)
         IN  IF source \in visited
             THEN Traverse(G, rest, visited, subgraph_edges)
             ELSE Traverse(G, rest \o Ascending(Successors(G, source)),
                           visited \cup {source},
                           subgraph_edges \cup {<<source, s>> : s \in Successors(G, source)})

RECURSIVE BuildSubGraphs(_, _, _, _)
BuildSubGraphs(G, sorted_identifiers, visited, sub_graphs) ==
    IF sorted_identifiers = <<>> THEN sub_graphs
    ELSE LET t == Traverse(G, <<Head(sorted_identifiers)>>, visited, {})
         IN  BuildSubGraphs(G, Tail(sorted_identifiers), t.visited,
                            IF t.edges # {} THEN Append(sub_graphs, t.edges)
                            ELSE sub_graphs)

into_weakly_connected_components(G, sorted_identifiers) ==
    BuildSubGraphs(G, sorted_identifiers, {}, <<>>)

\* ------------------------------------------------------------- leveler
\* The per-component state is a record [layers, level_of_node, index_of_node].
NewLayout == [layers |-> <<>>, level_of_node |-> EmptyMap, index_of_node |-> EmptyMap]

get_nums_of_level(layers) == Len(layers)

add_node_to_level(layers, node, node_level) ==
    IF node_level < Len(layers)
    THEN Put(layers, node_level, Append(At(layers, node_level), node))
    ELSE LET grown == layers \o [i \in 1 .. (node_level + 1) |-> <<>>]
         IN  Put(grown, node_level, Append(At(grown, node_level), node))

KnownLevels(st, S) == {st.level_of_node[n] : n \in S \cap DOMAIN st.level_of_node}

RECURSIVE arrange_nodes_in_levels(_, _, _)
arrange_nodes_in_levels(G, st, order) ==
    IF order = <<>> THEN st
    ELSE LET node == Head(order)
             lv == KnownLevels(st, Predecessors(G, node))
             node_level == (IF lv = {} THEN 0 ELSE Max(lv)) + 1
         IN  arrange_nodes_in_levels(G,
                 [st EXCEPT !.level_of_node = Insert(@, node, node_level),
                            !.layers = add_node_to_level(@, node, node_level)],
                 Tail(order))

Retain(level, node) == SelectSeq(level, LAMBDA other : other # node)

\* variant: the smallest predecessor level instead of the largest
NewLevelIncoming_min(G, st, node) ==
    LET lv == KnownLevels(st, Predecessors(G, node))
    IN  (IF lv = {} THEN 0 ELSE Min(lv)) + 1

\* variant: a vertex without predecessors goes to level 0
NewLevelIncoming_from_zero(G, st, node) ==
    LET lv == KnownLevels(st, Predecessors(G, node))
    IN  IF lv = {} THEN 0 ELSE Max(lv) + 1

NewLevelIncoming(G, st, node) ==
    LET lv == KnownLevels(st, Predecessors(G, node))
    IN  (IF lv = {} THEN 0 ELSE Max(lv)) + 1

NewLevelOutgoing(G, st, node) ==
    LET lv == KnownLevels(st, Successors(G, node))
        m == IF lv = {} THEN get_nums_of_level(st.layers) ELSE Min(lv)
    IN  IF m >= 1 THEN m - 1 ELSE 0

move_node_in_level(G, st, node, direction) ==
    LET new_node_level == IF direction = "Incoming" THEN NewLevelIncoming(G, st, node)
                          ELSE NewLevelOutgoing(G, st, node)
        current_node_level == st.level_of_node[node]
    IN  IF current_node_level = new_node_level THEN st
        ELSE LET removed == Put(st.layers, current_node_level,
                                Retain(At(st.layers, current_node_level), node))
             IN  [st EXCEPT !.layers = add_node_to_level(removed, node, new_node_level),
                            !.level_of_node = Insert(@, node, new_node_level)]

RECURSIVE MoveAll(_, _, _, _)
MoveAll(G, st, order, direction) ==
    IF order = <<>> THEN st
    ELSE MoveAll(G, move_node_in_level(G, st, Head(order), direction), Tail(order), direction)

\* ------------------------------------------------------------ centerer
MaxLevelLength(layers) == Max({Len(layers[i]) : i \in DOMAIN layers})

\* lines 171-176.  padding.append(level) moves the elements out of level, so
\* the level.len() read for the trailing padding is 0.
LenAfterAppend == 0

\* variant: no extra EMPTY slot in front
CenterLevel_no_lead(level, max_level_length) ==
    Nones((max_level_length - Len(level)) \div 2)
        \o level
        \o Nones((max_level_length - LenAfterAppend) \div 2)

CenterLevel(level, max_level_length) ==
    Nones((max_level_length - Len(level)) \div 2 + 1)
        \o level
        \o Nones((max_level_length - LenAfterAppend) \div 2)

center_levels(layers) ==
    LET max_level_length == MaxLevelLength(layers)
    IN  [i \in DOMAIN layers |-> CenterLevel(layers[i], max_level_length)]

\* lines 179-185: later occurrences overwrite earlier ones
RECURSIVE FillLevel(_, _, _)
FillLevel(index_of_node, level, index) ==
    IF index >= Len(level) THEN index_of_node
    ELSE FillLevel(IF At(level, index) # NONE
                   THEN Insert(index_of_node, At(level, index), index)
                   ELSE index_of_node,
                   level, index + 1)

RECURSIVE FillIndex(_, _, _)
FillIndex(index_of_node, layers, level_index) ==
    IF level_index >= Len(layers) THEN index_of_node
    ELSE FillIndex(FillLevel(index_of_node, At(layers, level_index), 0), layers, level_index + 1)

center_and_fill(st) ==
    LET centered == center_levels(st.layers)
    IN  [st EXCEPT !.layers = centered,
                   !.index_of_node = FillIndex(@, centered, 0)]

\* --------------------------------------------------- crossing reducer
AbsDiff(a, b) == IF a >= b THEN a - b ELSE b - a

DirectSuccessors(G, st, node, level_index) ==
    {n \in Successors(G, node) : AbsDiff(st.level_of_node[n], level_index) < 2}

CrossCount(G, st, node, left, level_index) ==
    Cardinality({p \in DirectSuccessors(G, st, node, level_index)
                          \X DirectSuccessors(G, st, left, level_index) :
                     st.index_of_node[p[2]] > st.index_of_node[p[1]]})

CrossCountSwap(G, st, node, left, level_index) ==
    Cardinality({p \in DirectSuccessors(G, st, node, level_index)
                          \X DirectSuccessors(G, st, left, level_index) :
                     st.index_of_node[p[2]] < st.index_of_node[p[1]]})

\* variant: a tie also exchanges
ShouldSwap_ties(cross_count_swap, cross_count) == cross_count_swap <= cross_count

\* line 308
ShouldSwap(cross_count_swap, cross_count) == cross_count_swap < cross_count

\* variant: the exchange is made in the level only
reduce_crossings_level_only(G, st, node, left, level_index) ==
    IF ShouldSwap(CrossCountSwap(G, st, node, left, level_index),
                  CrossCount(G, st, node, left, level_index))
    THEN LET node_index == st.index_of_node[node]
             left_index == st.index_of_node[left]
             level == At(st.layers, level_index)
             swapped == Put(Put(level, node_index, left), left_index, node)
         IN  [st EXCEPT !.layers = Put(@, level_index, swapped)]
    ELSE st

reduce_crossings(G, st, node, left, level_index) ==
    IF ShouldSwap(CrossCountSwap(G, st, node, left, level_index),
                  CrossCount(G, st, node, left, level_index))
    THEN LET node_index == st.index_of_node[node]
             left_index == st.index_of_node[left]
             level == At(st.layers, level_index)
             swapped == Put(Put(level, node_index, left), left_index, node)
         IN  [st EXCEPT !.layers = Put(@, level_index, swapped),
                        !.index_of_node = Insert(Insert(@, left, node_index), node, left_index)]
    ELSE st

\* one iteration of the loop body at lines 191-197; level is the cloned level
CrossStep(G, st, level, node, level_index) ==
    LET node_index == st.index_of_node[node]
    IN  IF node_index = 0 \/ node_index - 1 >= Len(level)
        THEN [ok |-> FALSE, st |-> st]
        ELSE LET left == At(level, node_index - 1)
             IN  IF left = NONE THEN [ok |-> TRUE, st |-> st]
                 ELSE [ok |-> TRUE, st |-> reduce_crossings(G, st, node, left, level_index)]

\* --------------------------------------------------------- gap slider
Position(level, node) ==
    IF node \in Range(level) THEN Min({i \in DOMAIN level : level[i] = node}) - 1 ELSE NONE

NeighborsNear(G, st, node, level_index) ==
    {n \in NeighborsUndirected(G, node) : AbsDiff(level_index, st.level_of_node[n]) < 2}

RECURSIVE SumIndex(_, _)
SumIndex(st, S) ==
    IF S = {} THEN 0
    ELSE LET n == CHOOSE x \in S : TRUE IN st.index_of_node[n] + SumIndex(st, S \ {n})

\* variant: the mean only has to be left of the column
MeanBelow_any(sum, count, node_index) == sum < node_index * count

\* mean < node_index - 0.5 and mean > node_index + 0.5 in exact arithmetic
MeanBelow(sum, count, node_index) == 2 * sum < (2 * node_index - 1) * count
MeanAbove(sum, count, node_index) == 2 * sum > (2 * node_index + 1) * count

\* variant: the slot on the left is not looked at
GoesLeft_over(sum, count, node_index, left) == MeanBelow(sum, count, node_index)

\* line 350
GoesLeft(sum, count, node_index, left) == MeanBelow(sum, count, node_index) /\ left = NONE

\* result: ok = no panic, ret = returned bool, st = new state
swap_with_none_neighbors(G, st, node, level_index) ==
    LET level == At(st.layers, level_index)
        node_index == Position(level, node)
    IN  IF node_index = NONE \/ node_index = 0 THEN [ok |-> FALSE, ret |-> TRUE, st |-> st]
        ELSE
        LET left == At(level, node_index - 1)
            right == IF node_index >= Len(level) - 1 THEN NONE ELSE At(level, node_index + 1)
            near == NeighborsNear(G, st, node, level_index)
            sum == SumIndex(st, near)
            count == Cardinality(near)
        IN  IF left # NONE /\ right # NONE THEN [ok |-> TRUE, ret |-> TRUE, st |-> st]
            ELSE IF near = {} THEN [ok |-> TRUE, ret |-> TRUE, st |-> st]
            ELSE IF ~GoesLeft(sum, count, node_index, left)
                    /\ ~(MeanAbove(sum, count, node_index) /\ right = NONE)
                 THEN [ok |-> TRUE, ret |-> TRUE, st |-> st]
            ELSE
            LET swap_index == IF GoesLeft(sum, count, node_index, left)
                              THEN node_index - 1 ELSE node_index + 1
                cleared == Put(level, node_index, NONE)
            IN  IF swap_index > Len(cleared)
                THEN [ok |-> TRUE, ret |-> FALSE,
                      st |-> [st EXCEPT !.layers = Put(@, level_index, Append(cleared, node)),
                                        !.index_of_node = Insert(@, node, swap_index)]]
                ELSE IF swap_index = Len(cleared)
                THEN [ok |-> FALSE, ret |-> FALSE, st |-> st]
                ELSE [ok |-> TRUE, ret |-> FALSE,
                      st |-> [st EXCEPT !.layers = Put(@, level_index, Put(cleared, swap_index, node)),
                                        !.index_of_node = Insert(@, node, swap_index)]]

\* ------------------------------------- refinement loop, lines 187-223
\* ctl is the position in the nested loops: round (0..9), pass (0..1), the
\* cloned levels, and the nodes of the clone still to be visited (todo).
Somes(level) == SelectSeq(level, LAMBDA n : n # NONE)

LevelWork(level, level_index, skip) ==
    LET f == Somes(SubSeq(level, skip + 1, Len(level)))
    IN  [i \in 1 .. Len(f) |-> <<level_index, f[i]>>]

RECURSIVE CrossWork(_, _)
CrossWork(levels, level_index) ==
    IF level_index >= Len(levels) THEN <<>>
    ELSE LevelWork(At(levels, level_index), level_index, 1) \o CrossWork(levels, level_index + 1)

StartCross(round, pass, layers) ==
    [phase |-> "cross", round |-> round, pass |-> pass, levels |-> layers,
     level_index |-> 0, iter |-> 0, todo |-> CrossWork(layers, 0), did_not_swap |-> TRUE]

RECURSIVE EnterLevel(_, _)
EnterLevel(c, level_index) ==
    IF level_index >= Len(c.levels)
    THEN [c EXCEPT !.level_index = Len(c.levels), !.iter = 0, !.todo = <<>>]
    ELSE IF Len(At(c.levels, level_index)) = 0
    THEN EnterLevel(c, level_index + 1)
    ELSE [c EXCEPT !.level_index = level_index, !.iter = 0, !.did_not_swap = TRUE,
                   !.todo = LevelWork(At(c.levels, level_index), level_index, 0)]

StartSlide(round, pass, layers) ==
    EnterLevel([phase |-> "slide", round |-> round, pass |-> pass, levels |-> layers,
                level_index |-> 0, iter |-> 0, todo |-> <<>>, did_not_swap |-> TRUE], 0)

IdleCtl ==
    [phase |-> "idle", round |-> 0, pass |-> 0, levels |-> <<>>,
     level_index |-> 0, iter |-> 0, todo |-> <<>>, did_not_swap |-> TRUE]

RoundOver(c) == c.did_not_swap \/ c.pass + 1 >= SlidePasses

RECURSIVE Advance(_, _)
Advance(c, layers) ==
    IF c.todo # <<>> \/ c.phase = "roots" THEN c
    ELSE IF c.phase = "cross"
    THEN IF c.pass + 1 < CrossPasses
         THEN Advance(StartCross(c.round, c.pass + 1, layers), layers)
         ELSE Advance(StartSlide(c.round, 0, layers), layers)
    ELSE IF c.level_index < Len(c.levels)
    THEN IF c.did_not_swap \/ c.iter + 1 >= Len(At(c.levels, c.level_index))
         THEN Advance(EnterLevel(c, c.level_index + 1), layers)
         ELSE Advance([c EXCEPT !.iter = @ + 1, !.did_not_swap = TRUE,
                                !.todo = LevelWork(At(c.levels, c.level_index), c.level_index, 0)],
                      layers)
    ELSE IF RoundOver(c)
    THEN IF c.round + 1 < Rounds
         THEN Advance(StartCross(c.round + 1, 0, layers), layers)
         ELSE [c EXCEPT !.phase = "roots", !.levels = <<>>, !.level_index = 0]
    ELSE Advance(StartSlide(c.round, c.pass + 1, layers), layers)

\* -------------------------------------- roots-to-top pass, lines 228-242
\* variant: Direction::Outgoing in place of Direction::Incoming
IsGlobalTask_outgoing(G, node, node_level) == node_level # 0 /\ Successors(G, node) = {}

\* line 231
IsGlobalTask(G, node, node_level) == node_level # 0 /\ Predecessors(G, node) = {}

RECURSIVE MoveRoots(_, _, _)
MoveRoots(G, st, order) ==
    IF order = <<>> THEN [ok |-> TRUE, st |-> st]
    ELSE LET node == Head(order)
             node_level == st.level_of_node[node]
         IN  IF IsGlobalTask(G, node, node_level)
             THEN LET index == st.index_of_node[node]
                      level == At(st.layers, node_level)
                  IN  IF index >= Len(level) THEN [ok |-> FALSE, st |-> st]
                      ELSE LET removed == Put(st.layers, node_level, RemoveAt(level, index))
                               pushed == Put(removed, 0, Append(At(removed, 0), node))
                           IN  MoveRoots(G, [st EXCEPT !.layers = pushed,
                                                       !.level_of_node = Insert(@, node, 0)],
                                         Tail(order))
             ELSE MoveRoots(G, st, Tail(order))

\* variant: index_of_node is not recomputed for level 0
global_tasks_pass_keep_index(G, st) == MoveRoots(G, st, Ascending(NodesOf(G)))

global_tasks_pass(G, st) ==
    LET r == MoveRoots(G, st, Ascending(NodesOf(G)))
    IN  IF ~r.ok THEN r
        ELSE [ok |-> TRUE,
              st |-> [r.st EXCEPT !.index_of_node = FillLevel(@, At(r.st.layers, 0), 0)]]

\* -------------------------------------------------------- build_layout
Occupied(level) == Cardinality({i \in DOMAIN level : level[i] # NONE})

\* variant: every occupied slot of the grid is counted
get_width_total(layers) ==
    Cardinality({s \in (1 .. Len(layers)) \X (1 .. MaxLevelLength(layers)) :
                    s[2] <= Len(layers[s[1]]) /\ layers[s[1]][s[2]] # NONE})

\* variant: the length of the longest level, EMPTY slots included
get_width_len(layers) ==
    IF Len(layers) = 0 THEN 0 ELSE Max({Len(layers[i]) : i \in DOMAIN layers})

get_width(layers) ==
    IF Len(layers) = 0 THEN 0 ELSE Max({Occupied(layers[i]) : i \in DOMAIN layers})

\* variant: the shift is applied whether or not level 0 is empty
Offset_always(layers) == 1

Offset(layers) == IF \A i \in DOMAIN At(layers, 0) : At(layers, 0)[i] = NONE THEN 1 ELSE 0

\* slots <<level_index, node_index>> holding node, in iteration order
SlotsOf(layers, node) ==
    {s \in (0 .. Len(layers) - 1) \X (0 .. MaxLevelLength(layers) - 1) :
        s[2] < Len(At(layers, s[1])) /\ At(At(layers, s[1]), s[2]) = node}

\* HashMap::insert keeps the value of the last insertion
LastSlot(layers, node) ==
    CHOOSE s \in SlotsOf(layers, node) :
        \A t \in SlotsOf(layers, node) : t[1] < s[1] \/ (t[1] = s[1] /\ t[2] <= s[2])

PlacedNodes(layers) == UNION {Range(layers[i]) : i \in DOMAIN layers} \ {NONE}

XCoord(node_index, node_separation) == node_index * node_separation
YCoord(level_index, offset, node_separation) == (offset - level_index) * node_separation
\* variant: keys shifted to a 1-based numbering
Key_plus_one(node) == node + 1

Key(node) == node

build_layout(st, size) ==
    LET node_separation == size * SeparationFactor
        offset == Offset(st.layers)
        placed == PlacedNodes(st.layers)
    IN  [layout |-> [k \in {Key(n) : n \in placed} |->
                        LET n == CHOOSE m \in placed : Key(m) = k
                            s == LastSlot(st.layers, n)
                        IN  <<XCoord(s[2], node_separation), YCoord(s[1], offset, node_separation)>>],
         width |-> get_width(st.layers),
         height |-> get_nums_of_level(st.layers)]

\* ------------------------- bench/graph_generators.rs: layered graphs
RECURSIVE Pow(_, _)
Pow(k, n) == IF n = 0 THEN 1 ELSE k * Pow(k, n - 1)

DivCeil(a, b) == (a + b - 1) \div b

\* sum of k^i for i = 0 .. n - 1
geo_series(k, n) == (Pow(k, n) - 1) \div (k - 1)

\* the first m items of EdgesCalculator::new(deg)
EdgesCalculator(deg, m) == [i \in 1 .. m |-> <<(i - 1) \div deg, i>>]

\* LayeredGraphGenerator::new(n).with_degree(deg)
with_degree(n, deg) ==
    LET n_layers_half == DivCeil(n, 2)
        pow == Pow(deg, n_layers_half - 1)
        n_edges_half == geo_series(deg, n_layers_half) - 1
        total_vertices == 2 * n_edges_half + 2 - ((n % 2) * pow)
        upper == EdgesCalculator(deg, n_edges_half)
        lower == [i \in 1 .. n_edges_half |->
                     <<total_vertices - upper[i][2] - 1, total_vertices - upper[i][1] - 1>>]
        glue == IF n % 2 = 0
                THEN [i \in 1 .. pow |-> <<pow - deg + i, pow - deg + i + pow>>]
                ELSE <<>>
    IN  [n |-> n, k |-> deg, edges |-> upper \o lower \o glue, n_vertices |-> total_vertices]

\* variant: every layer is taken from the upper half
determine_relative_layer_upper(n, layer) == <<layer, FALSE>>

determine_relative_layer(n, layer) ==
    IF layer < DivCeil(n, 2) THEN <<layer, FALSE>>
    ELSE <<((n - 1) \div 2) - AbsDiff(n \div 2, layer), TRUE>>

\* <<number of vertices of the layer, first vertex of the layer>>
determine_node_range(k, total_vertices, rel) ==
    LET n_vertices == Pow(k, rel[1])
        start == geo_series(k, rel[1])
    IN  <<n_vertices, IF rel[2] THEN total_vertices - start - n_vertices ELSE start>>

\* LCG::generate_range(range) is some value below range; create_random_vertex
\* adds the start of the layer
RandomVertices(range) == {range[2] + r : r \in 0 .. range[1] - 1}

NoRandomizer ==
    [n |-> 0, k |-> 0, edges |-> <<>>, n_vertices |-> 0, layer |-> 0, amount |-> 0,
     upper_range |-> <<0, 0>>, lower_range |-> <<0, 0>>, tries |-> 0]

\* ------------------------------------------------------------- state
VARIABLES nodes, edges, node_size, global_tasks_in_first_row, pc, graphs, cur, layouts, ctl,
          result, gen

vars == <<nodes, edges, node_size, global_tasks_in_first_row, pc, graphs, cur, layouts, ctl,
          result, gen>>

inputs == <<nodes, edges, node_size, global_tasks_in_first_row>>

\* the nodes of the graph that is split: the vertex list and the edge endpoints
GraphNodes == nodes \cup NodesOf(edges)

Start ==
    /\ pc = "create_layers"
    /\ graphs = <<>>
    /\ cur = 0
    /\ layouts = <<>>
    /\ ctl = IdleCtl
    /\ result = <<>>
    /\ gen = NoRandomizer

Init ==
    /\ edges \in SetsUpTo(MaxEdges)
    /\ nodes = NodesOf(edges)
    /\ node_size \in 1 .. MaxNodeSize
    /\ global_tasks_in_first_row \in BOOLEAN
    /\ Start

\* create_layouts_original (lib.rs): the caller passes a vertex list, which may
\* name vertices without edges, and any vertex_size
InitApi ==
    /\ edges \in SetsUpTo(MaxEdges)
    /\ nodes \in {NodesOf(edges) \cup extra : extra \in SUBSET Nodes}
    /\ node_size \in (0 - MaxNegNodeSize) .. MaxNodeSize
    /\ global_tasks_in_first_row \in BOOLEAN
    /\ Start

\* create_layers, lines 44-48: split and construct one GraphLayout per sub graph
SplitGraph ==
    /\ pc = "create_layers"
    /\ IF ~IsAcyclic(edges)
       THEN /\ pc' = "panic"
            /\ UNCHANGED <<graphs, cur, layouts>>
       ELSE \E sorted \in TopoOrdersOn(GraphNodes, edges) :
              /\ graphs' = into_weakly_connected_components(edges, sorted)
              /\ layouts' = [i \in 1 .. Len(graphs') |-> NewLayout]
              /\ IF Len(graphs') = 0
                 THEN pc' = "build" /\ cur' = 0
                 ELSE pc' = "arrange" /\ cur' = 1
    /\ UNCHANGED <<inputs, gen, ctl, result>>

\* align_nodes, line 158
ArrangeNodesInLevels ==
    /\ pc = "arrange"
    /\ \E order \in TopoOrders(graphs[cur]) :
         layouts' = [layouts EXCEPT ![cur] = arrange_nodes_in_levels(graphs[cur], @, order)]
    /\ pc' = "move_up"
    /\ UNCHANGED <<inputs, gen, graphs, cur, ctl, result>>

\* align_nodes, lines 161-163
MoveNodesUp ==
    /\ pc = "move_up"
    /\ layouts' = [layouts EXCEPT ![cur] =
           MoveAll(graphs[cur], @, Reverse(Ascending(NodesOf(graphs[cur]))), "Outgoing")]
    /\ pc' = "move_down"
    /\ UNCHANGED <<inputs, gen, graphs, cur, ctl, result>>

\* align_nodes, lines 165-167
MoveNodesDown ==
    /\ pc = "move_down"
    /\ layouts' = [layouts EXCEPT ![cur] =
           MoveAll(graphs[cur], @, Ascending(NodesOf(graphs[cur])), "Incoming")]
    /\ pc' = "center"
    /\ UNCHANGED <<inputs, gen, graphs, cur, ctl, result>>

\* align_nodes, lines 170-185, then entry into the refinement loop
CenterLevels ==
    /\ pc = "center"
    /\ layouts' = [layouts EXCEPT ![cur] = center_and_fill(@)]
    /\ ctl' = Advance(StartCross(0, 0, layouts'[cur].layers), layouts'[cur].layers)
    /\ pc' = ctl'.phase
    /\ UNCHANGED <<inputs, gen, graphs, cur, result>>

\* one iteration of the loop at line 191 (one candidate for reduce_crossings)
ReduceCrossingsStep ==
    /\ pc = "cross"
    /\ LET level_index == ctl.todo[1][1]
           node == ctl.todo[1][2]
           r == CrossStep(graphs[cur], layouts[cur], At(ctl.levels, level_index), node, level_index)
       IN  IF ~r.ok
           THEN pc' = "panic" /\ UNCHANGED <<layouts, ctl>>
           ELSE /\ layouts' = [layouts EXCEPT ![cur] = r.st]
                /\ ctl' = Advance([ctl EXCEPT !.todo = Tail(@)], r.st.layers)
                /\ pc' = ctl'.phase
    /\ UNCHANGED <<inputs, gen, graphs, cur, result>>

\* one iteration of the loop at line 208 (one call of swap_with_none_neighbors)
SwapWithNoneNeighborsStep ==
    /\ pc = "slide"
    /\ LET level_index == ctl.todo[1][1]
           node == ctl.todo[1][2]
           r == swap_with_none_neighbors(graphs[cur], layouts[cur], node, level_index)
       IN  IF ~r.ok
           THEN pc' = "panic" /\ UNCHANGED <<layouts, ctl>>
           ELSE /\ layouts' = [layouts EXCEPT ![cur] = r.st]
                /\ ctl' = Advance([ctl EXCEPT !.todo = Tail(@),
                                              !.did_not_swap = IF r.ret THEN @ ELSE FALSE],
                                  r.st.layers)
                /\ pc' = ctl'.phase
    /\ UNCHANGED <<inputs, gen, graphs, cur, result>>

\* align_nodes, lines 228-242, and the step of the loop at line 50
GlobalTasksInFirstRow ==
    /\ pc = "roots"
    /\ LET r == IF global_tasks_in_first_row
                THEN global_tasks_pass(graphs[cur], layouts[cur])
                ELSE [ok |-> TRUE, st |-> layouts[cur]]
       IN  IF ~r.ok
           THEN pc' = "panic" /\ UNCHANGED <<layouts, cur>>
           ELSE /\ layouts' = [layouts EXCEPT ![cur] = r.st]
                /\ IF cur < Len(graphs)
                   THEN pc' = "arrange" /\ cur' = cur + 1
                   ELSE pc' = "build" /\ cur' = cur
    /\ ctl' = IdleCtl
    /\ UNCHANGED <<inputs, gen, graphs, result>>

\* create_layers, line 54
BuildLayouts ==
    /\ pc = "build"
    /\ result' = [i \in 1 .. Len(layouts) |-> build_layout(layouts[i], node_size)]
    /\ pc' = "done"
    /\ UNCHANGED <<inputs, gen, graphs, cur, layouts, ctl>>

Next ==
    \/ SplitGraph
    \/ ArrangeNodesInLevels
    \/ MoveNodesUp
    \/ MoveNodesDown
    \/ CenterLevels
    \/ ReduceCrossingsStep
    \/ SwapWithNoneNeighborsStep
    \/ GlobalTasksInFirstRow
    \/ BuildLayouts

Spec == Init /\ [][Next]_vars

SpecApi == InitApi /\ [][Next]_vars

\* create_layers on larger graphs whose edges all lead from a smaller to a
\* larger identifier; these are the smallest inputs on which reduce_crossings
\* exchanges two vertices
ForwardEdges == {e \in (0 .. NumNodesCross - 1) \X (0 .. NumNodesCross - 1) : e[1] < e[2]}

InitCross ==
    /\ edges \in {G \in SUBSET ForwardEdges : Cardinality(G) <= MaxEdgesCross}
    /\ nodes = NodesOf(edges)
    /\ node_size = 1
    /\ global_tasks_in_first_row = FALSE
    /\ Start

SpecCross == InitCross /\ [][Next]_vars

\* create_layers on graphs with one source 0, its successors 1 .. FanMiddle
\* and any edges from these to FanLeaves further vertices; these are the
\* smallest inputs with two exchanges in one level during one pass
FanTop == {0} \X (1 .. FanMiddle)
FanBottom == (1 .. FanMiddle) \X ((FanMiddle + 1) .. (FanMiddle + FanLeaves))

InitFan ==
    /\ edges \in {FanTop \cup S : S \in SUBSET FanBottom}
    /\ nodes = NodesOf(edges)
    /\ node_size = 1
    /\ global_tasks_in_first_row = FALSE
    /\ Start

SpecFan == InitFan /\ [][Next]_vars

\* a single call swap_with_none_neighbors(node, level_index) on a layout of
\* the edge 0 -> 1 with two levels of up to CallLen slots: vertex 0 in some
\* column of level 0, vertex 1 in some column of level 1, column 0 EMPTY
OneVertexLevel(len, column, node) == [i \in 1 .. len |-> IF i = column + 1 THEN node ELSE NONE]

CallLayouts ==
    {[layers |-> <<OneVertexLevel(la, a, 0), OneVertexLevel(lb, b, 1)>>,
      level_of_node |-> (0 :> 0 @@ 1 :> 1),
      index_of_node |-> (0 :> a @@ 1 :> b)] :
        <<la, a, lb, b>> \in {q \in (2 .. CallLen) \X (1 .. CallLen) \X (2 .. CallLen) \X (1 .. CallLen) :
                                q[2] < q[1] /\ q[4] < q[3]}}

InitCall ==
    /\ edges = {<<0, 1>>}
    /\ nodes = {0, 1}
    /\ node_size = 1
    /\ global_tasks_in_first_row = FALSE
    /\ graphs = <<edges>>
    /\ cur = 1
    /\ layouts \in {<<st>> : st \in CallLayouts}
    /\ \E node \in {0, 1} :
         ctl = [IdleCtl EXCEPT !.phase = "slide", !.levels = layouts[1].layers,
                               !.level_index = node, !.todo = <<<<node, node>>>>]
    /\ pc = "call"
    /\ result = <<>>
    /\ gen = NoRandomizer

SwapWithNoneNeighborsCall ==
    /\ pc = "call"
    /\ LET level_index == ctl.todo[1][1]
           node == ctl.todo[1][2]
           r == swap_with_none_neighbors(graphs[cur], layouts[cur], node, level_index)
       IN  IF ~r.ok
           THEN pc' = "panic" /\ UNCHANGED <<layouts, ctl>>
           ELSE /\ layouts' = [layouts EXCEPT ![cur] = r.st]
                /\ ctl' = [ctl EXCEPT !.did_not_swap = r.ret]
                /\ pc' = "returned"
    /\ UNCHANGED <<inputs, gen, graphs, cur, result>>

SpecCall == InitCall /\ [][SwapWithNoneNeighborsCall]_vars

\* add_random_edges_in_layer(amount, layer) on the graph of
\* LayeredGraphGenerator::new(n).with_degree(k), for n >= 3 (with_degree
\* subtracts below zero for n = 2)
InitGen ==
    /\ edges = {}
    /\ nodes = {}
    /\ node_size = 1
    /\ global_tasks_in_first_row = FALSE
    /\ graphs = <<>>
    /\ cur = 0
    /\ layouts = <<>>
    /\ ctl = IdleCtl
    /\ result = <<>>
    /\ \E n \in 3 .. MaxLayers : \E k \in 2 .. MaxDegree :
       \E layer \in 0 .. MaxLayers + 1 : \E amount \in 0 .. MaxAmount :
         LET g == with_degree(n, k)
         IN  gen = [NoRandomizer EXCEPT !.n = g.n, !.k = g.k, !.edges = g.edges,
                                        !.n_vertices = g.n_vertices,
                                        !.layer = layer, !.amount = amount]
    /\ pc = "add_random_edges_in_layer"

\* the loop of add_random_edges_in_layer, lines 194-197
AddRandomEdgesInLayer ==
    /\ pc = "add_random_edges_in_layer"
    /\ IF gen.amount = 0
       THEN pc' = "build" /\ gen' = gen
       ELSE pc' = "add_random_edge_in_layer" /\ gen' = [gen EXCEPT !.amount = @ - 1]
    /\ UNCHANGED <<inputs, graphs, cur, layouts, ctl, result>>

\* add_random_edge_in_layer up to the loop, lines 166-175
AddRandomEdgeInLayer ==
    /\ pc = "add_random_edge_in_layer"
    /\ IF gen.layer >= gen.n - 1 \/ gen.layer <= 1
       THEN pc' = "add_random_edges_in_layer" /\ gen' = gen
       ELSE LET layer == gen.layer - 1
            IN  /\ gen' = [gen EXCEPT
                       !.upper_range = determine_node_range(gen.k, gen.n_vertices,
                                           determine_relative_layer(gen.n, layer)),
                       !.lower_range = determine_node_range(gen.k, gen.n_vertices,
                                           determine_relative_layer(gen.n, layer + 1)),
                       !.tries = 0]
                /\ pc' = "try"
    /\ UNCHANGED <<inputs, graphs, cur, layouts, ctl, result>>

\* one iteration of the loop at lines 179-187
TryRandomEdge ==
    /\ pc = "try"
    /\ IF gen.tries >= Tries
       THEN pc' = "add_random_edges_in_layer" /\ gen' = gen
       ELSE \E tail \in RandomVertices(gen.upper_range) :
            \E head \in RandomVertices(gen.lower_range) :
              IF <<tail, head>> \notin Range(gen.edges)
              THEN /\ gen' = [gen EXCEPT !.edges = Append(@, <<tail, head>>)]
                   /\ pc' = "add_random_edges_in_layer"
              ELSE /\ gen' = [gen EXCEPT !.tries = @ + 1]
                   /\ pc' = "try"
    /\ UNCHANGED <<inputs, graphs, cur, layouts, ctl, result>>

NextGen ==
    \/ AddRandomEdgesInLayer
    \/ AddRandomEdgeInLayer
    \/ TryRandomEdge

SpecGen == InitGen /\ [][NextGen]_vars

\* ===================================================================
\* Properties
\* ===================================================================
Returned == pc = "done"
Components == DOMAIN graphs
Aligned(i) == pc \in {"build", "done"} \/ (i < cur /\ pc # "create_layers")

Sources(G) == {n \in NodesOf(G) : Predecessors(G, n) = {}}
OccupiedLevels(layers) == {l \in 0 .. Len(layers) - 1 : Occupied(At(layers, l)) > 0}
XValues(layout) == {layout[k][1] : k \in DOMAIN layout}
YValues(layout) == {layout[k][2] : k \in DOMAIN layout}

RECURSIVE UndirectedClosure(_, _)
UndirectedClosure(G, S) ==
    LET T == S \cup UNION {NeighborsUndirected(G, n) : n \in S}
    IN  IF T = S THEN S ELSE UndirectedClosure(G, T)

WeaklyConnected(G, u, v) == v \in UndirectedClosure(G, {u})

\* C1: in every returned component each edge (u, v) of the component has u
\* on a strictly smaller level of the final grid than v, and u is emitted
\* with a strictly greater y than v.
C1_LevelMonotonicity ==
    Returned =>
        \A i \in Components : \A e \in graphs[i] :
            /\ {e[1], e[2]} \subseteq DOMAIN result[i].layout
            /\ result[i].layout[e[1]][2] > result[i].layout[e[2]][2]
            /\ \A s \in SlotsOf(layouts[i].layers, e[1]) :
                 \A t \in SlotsOf(layouts[i].layers, e[2]) : s[1] < t[1]

C1_Witness ==
    /\ Returned
    /\ global_tasks_in_first_row
    /\ \E i \in Components :
         \E a \in graphs[i], b \in graphs[i] : a[2] = b[1] /\ <<a[1], b[2]>> \in graphs[i]

\* C2 (as claimed): every input vertex is a key of exactly one of the
\* returned position maps.
C2_Bijection ==
    Returned =>
        \A v \in NodesOf(edges) :
            Cardinality({i \in Components : v \in DOMAIN result[i].layout}) = 1

\* C3 (as claimed): two vertices are in the same sub graph returned by
\* into_weakly_connected_components iff they are weakly connected in the input.
C3_WeaklyConnectedPartition ==
    (pc \notin {"create_layers", "panic"}) =>
        \A u \in NodesOf(edges), v \in NodesOf(edges) :
            (\E i \in Components : {u, v} \subseteq NodesOf(graphs[i]))
                <=> WeaklyConnected(edges, u, v)

\* C4: every key of a returned position map is a vertex of the input, in the
\* caller's numbering, and is a vertex of the component the map belongs to.
C4_IdentifierPreservation ==
    Returned =>
        \A i \in Components :
            /\ DOMAIN result[i].layout \subseteq NodesOf(edges)
            /\ DOMAIN result[i].layout \subseteq NodesOf(graphs[i])

C4_Witness ==
    /\ Returned
    /\ Len(result) >= 2
    /\ 0 \notin NodesOf(edges)
    /\ \E i \in Components : DOMAIN result[i].layout # NodesOf(edges)

\* C5 (as claimed): height is the number of levels of the final grid with an
\* occupied slot, which is the number of distinct y values of the component.
C5_HeightIsOccupiedLevels ==
    Returned =>
        \A i \in Components :
            /\ result[i].height = Cardinality(OccupiedLevels(layouts[i].layers))
            /\ result[i].height = Cardinality(YValues(result[i].layout))

\* C6: width is the maximum over the levels of the final grid of the number
\* of occupied slots of the level.
C6_WidthIsMaxOccupied ==
    Returned =>
        \A i \in Components :
            /\ \A l \in 0 .. Len(layouts[i].layers) - 1 :
                 Occupied(At(layouts[i].layers, l)) <= result[i].width
            /\ \E l \in 0 .. Len(layouts[i].layers) - 1 :
                 Occupied(At(layouts[i].layers, l)) = result[i].width

C6_Witness ==
    /\ Returned
    /\ \E i \in Components :
         /\ result[i].width = 2
         /\ \E l \in 0 .. Len(layouts[i].layers) - 1 :
              Occupied(At(layouts[i].layers, l)) = 1

C8_GridCoherence ==
    Returned =>
        \A i \in Components : \A k \in DOMAIN result[i].layout :
            LET x == result[i].layout[k][1]
                y == result[i].layout[k][2]
            IN  /\ x >= 0
                /\ x % (node_size * 4) = 0
                /\ y <= 0
                /\ (0 - y) % (node_size * 4) = 0

C8_Witness ==
    /\ Returned
    /\ node_size > 1
    /\ \E i \in Components :
         /\ Occupied(At(layouts[i].layers, 0)) > 0
         /\ \E k \in DOMAIN result[i].layout : result[i].layout[k][2] < 0

OnlySourceOnTop(i) ==
    /\ Cardinality(Sources(graphs[i])) = 1
    /\ \A v \in Sources(graphs[i]) :
         layouts[i].level_of_node[v] = Min(OccupiedLevels(layouts[i].layers))

C10_RootsToTopNoOp ==
    [][(pc = "roots" /\ global_tasks_in_first_row /\ pc' # "panic" /\ OnlySourceOnTop(cur))
         => build_layout(layouts'[cur], node_size) = build_layout(layouts[cur], node_size)]_vars

\* C11 (as claimed): every vertex of the vertex list without an incident edge
\* is returned as its own component: exactly one position map holds it, that
\* map is {v: (node_size * 4, 0)}, and its width and height are 1.
C11_IsolatedVertexOwnComponent ==
    Returned =>
        \A v \in nodes \ NodesOf(edges) :
            /\ Cardinality({i \in DOMAIN result : v \in DOMAIN result[i].layout}) = 1
            /\ \A i \in DOMAIN result :
                 v \in DOMAIN result[i].layout =>
                     /\ DOMAIN result[i].layout = {v}
                     /\ result[i].layout[v] = <<node_size * 4, 0>>
                     /\ result[i].width = 1
                     /\ result[i].height = 1

\* C12 (as claimed): for the single edge u -> v the result is one component
\* with u at (node_size * 4, 0), v at (node_size * 4, -node_size * 4), width 1
\* and height 2.
C12_SingleEdge ==
    (Returned /\ Cardinality(edges) = 1) =>
        \A e \in edges :
            /\ Len(result) = 1
            /\ DOMAIN result[1].layout = {e[1], e[2]}
            /\ result[1].layout[e[1]] = <<node_size * 4, 0>>
            /\ result[1].layout[e[2]] = <<node_size * 4, 0 - node_size * 4>>
            /\ result[1].width = 1
            /\ result[1].height = 2

RECURSIVE Descendants(_, _)
Descendants(G, S) ==
    LET T == S \cup UNION {Successors(G, n) : n \in S}
    IN  IF T = S THEN S ELSE Descendants(G, T)

HasDirectedCycle(G) == \E e \in G : e[1] \in Descendants(G, {e[2]})

EdgesAmong(G, V) == {e \in G : e[1] \in V /\ e[2] \in V}

\* C13: when the edges contain a directed cycle the call fails before any
\* layout exists and returns nothing, acyclic components included; hence a
\* call that returns had an acyclic input.
C13_CyclicInputFails ==
    HasDirectedCycle(edges) =>
        /\ pc \in {"create_layers", "panic"}
        /\ layouts = <<>>
        /\ result = <<>>

C13_Witness ==
    /\ pc = "panic"
    /\ HasDirectedCycle(edges)
    /\ \E e \in edges :
         ~HasDirectedCycle(EdgesAmong(edges, UndirectedClosure(edges, {e[1]})))

\* C14 (as claimed): a call with node_size <= 0 is rejected and returns no
\* layout; no positions are computed with a zero or negative separation.
C14_NonPositiveSizeRejected ==
    node_size <= 0 =>
        /\ ~Returned
        /\ result = <<>>

\* every vertex of G is in exactly one slot of the grid, the one its
\* level_of_node and index_of_node entries name
InOneSlot(G, st) ==
    \A v \in NodesOf(G) :
        /\ v \in DOMAIN st.level_of_node
        /\ v \in DOMAIN st.index_of_node
        /\ SlotsOf(st.layers, v) = {<<st.level_of_node[v], st.index_of_node[v]>>}

\* C16: from the moment the Centerer has filled index_of_node, and after
\* every single step of the crossing reducer and of the gap slider, every
\* vertex of the component is in exactly one slot of the grid, and that slot
\* is grid[level_of_node[v]][index_of_node[v]].
C16_OneSlotDuringRefinement ==
    pc \in {"cross", "slide", "roots"} => InOneSlot(graphs[cur], layouts[cur])

\* the gap slider has moved a vertex of the level it is working on
C16_Witness ==
    /\ pc = "slide"
    /\ At(layouts[cur].layers, ctl.level_index) # At(ctl.levels, ctl.level_index)
    /\ InOneSlot(graphs[cur], layouts[cur])

\* pairs <<s, t>>: s a successor of node, t a successor of left, both on a
\* level that differs from L by less than 2
NearPairs(G, st, node, left, L) ==
    {p \in Successors(G, node) \X Successors(G, left) :
        /\ st.level_of_node[p[1]] - L \in {-1, 0, 1}
        /\ st.level_of_node[p[2]] - L \in {-1, 0, 1}}

Exchanged(st, node, left, L) ==
    [st EXCEPT !.layers[L + 1][st.index_of_node[node] + 1] = left,
               !.layers[L + 1][st.index_of_node[left] + 1] = node,
               !.index_of_node[node] = st.index_of_node[left],
               !.index_of_node[left] = st.index_of_node[node]]

\* C20: a call reduce_crossings(node, left, L) exchanges the two vertices and
\* their index_of_node entries when C' < C, and leaves the grid and
\* index_of_node as they are when C' >= C; C counts the pairs with
\* index_of_node[t] > index_of_node[s], C' those with index_of_node[t] <
\* index_of_node[s].
C20_ExchangeIffFewerCrossings ==
    [][(pc = "cross" /\ pc' # "panic") =>
          LET L == ctl.todo[1][1]
              node == ctl.todo[1][2]
              st == layouts[cur]
              left == At(At(ctl.levels, L), st.index_of_node[node] - 1)
              pairs == NearPairs(graphs[cur], st, node, left, L)
              C == Cardinality({p \in pairs : st.index_of_node[p[2]] > st.index_of_node[p[1]]})
              Cs == Cardinality({p \in pairs : st.index_of_node[p[2]] < st.index_of_node[p[1]]})
          IN  left # NONE =>
                  IF Cs < C
                  THEN layouts'[cur] = Exchanged(st, node, left, L) /\ layouts'[cur] # st
                  ELSE layouts'[cur] = st]_vars

\* the crossing reducer has exchanged two vertices in the running pass
C20_Witness ==
    /\ pc = "cross"
    /\ layouts[cur].layers # ctl.levels
    /\ \E L \in 0 .. Len(ctl.levels) - 1 :
         /\ At(layouts[cur].layers, L) # At(ctl.levels, L)
         /\ Somes(At(layouts[cur].layers, L)) # Somes(At(ctl.levels, L))

C18_LevelsHaveEqualLength ==
    [][pc = "center" =>
          \A l \in DOMAIN layouts'[cur].layers :
              Len(layouts'[cur].layers[l]) = MaxLevelLength(layouts[cur].layers) + 1]_vars

\* C19 (as claimed): the Centerer turns a level of length l into
\* floor((max_len - l) / 2) + 1 EMPTY slots, the vertices of the level in
\* their order, and floor((max_len - l) / 2) EMPTY slots.
C19_CenteredLevelShape ==
    [][pc = "center" =>
          \A l \in DOMAIN layouts[cur].layers :
              LET level == layouts[cur].layers[l]
                  pad == (MaxLevelLength(layouts[cur].layers) - Len(level)) \div 2
              IN  layouts'[cur].layers[l] = Nones(pad + 1) \o level \o Nones(pad)]_vars

\* columns of level L whose content the step changes
ChangedColumns(before, after, L) ==
    {i \in 0 .. Len(At(before, L)) - 1 : At(At(after, L), i) # At(At(before, L), i)}

\* C21 (as claimed): every exchange of a crossing reducer pass is between two
\* vertices in adjacent columns i-1 and i of one level at the moment of the
\* exchange, also after earlier exchanges of the same pass in that level.
C21_ExchangesAdjacent ==
    [][(pc = "cross" /\ pc' # "panic" /\ layouts'[cur].layers # layouts[cur].layers) =>
          LET L == ctl.todo[1][1]
              node == ctl.todo[1][2]
              i == layouts[cur].index_of_node[node]
          IN  /\ ChangedColumns(layouts[cur].layers, layouts'[cur].layers, L) = {i - 1, i}
              /\ At(At(layouts'[cur].layers, L), i - 1) = node]_vars

\* twice the mean column of the undirected neighbours of v on levels L-1, L,
\* L+1, as the pair <<2 * sum, count>>
RECURSIVE ColumnSum(_, _)
ColumnSum(index_of, S) ==
    IF S = {} THEN 0
    ELSE LET n == CHOOSE x \in S : TRUE IN index_of[n] + ColumnSum(index_of, S \ {n})

NearNeighbours(G, st, v, L) ==
    {n \in NodesOf(G) : /\ (<<n, v>> \in G \/ <<v, n>> \in G)
                        /\ st.level_of_node[n] \in {L - 1, L, L + 1}}

\* v moved from column i to the EMPTY column j of level L, nothing else changed
MovedTo(st, after, v, L, i, j) ==
    /\ j >= 0 /\ j < Len(At(st.layers, L))
    /\ At(At(st.layers, L), j) = NONE
    /\ after.layers = [st.layers EXCEPT ![L + 1][i + 1] = NONE, ![L + 1][j + 1] = v]
    /\ after.index_of_node = [st.index_of_node EXCEPT ![v] = j]
    /\ after.level_of_node = st.level_of_node

\* C22: a gap slider step on v in column i of level L changes nothing, or
\* moves v by one column into an EMPTY slot and leaves column i EMPTY; to the
\* left only if the mean column of its neighbours on levels L-1, L, L+1 is
\* below i - 0.5, to the right only if it is above i + 0.5; never when both
\* adjacent slots are occupied or v has no such neighbour.
C22_SliderStep ==
    [][(pc = "slide" /\ pc' # "panic") =>
          LET L == ctl.todo[1][1]
              v == ctl.todo[1][2]
              st == layouts[cur]
              level == At(st.layers, L)
              i == CHOOSE k \in 0 .. Len(level) - 1 : At(level, k) = v
              near == NearNeighbours(graphs[cur], st, v, L)
              sum == ColumnSum(st.index_of_node, near)
              count == Cardinality(near)
              both == /\ At(level, i - 1) # NONE
                      /\ i + 1 < Len(level) /\ At(level, i + 1) # NONE
          IN  \/ layouts'[cur] = st
              \/ /\ MovedTo(st, layouts'[cur], v, L, i, i - 1)
                 /\ ~both /\ count > 0
                 /\ 2 * sum < (2 * i - 1) * count
              \/ /\ MovedTo(st, layouts'[cur], v, L, i, i + 1)
                 /\ ~both /\ count > 0
                 /\ 2 * sum > (2 * i + 1) * count]_vars

\* the slider has just moved a vertex one column to the left
C22_Witness ==
    /\ pc = "slide"
    /\ \E L \in 0 .. Len(ctl.levels) - 1 : \E k \in 1 .. Len(At(ctl.levels, L)) - 1 :
         /\ At(At(ctl.levels, L), k) # NONE
         /\ At(At(layouts[cur].layers, L), k) = NONE
         /\ At(At(layouts[cur].layers, L), k - 1) = At(At(ctl.levels, L), k)

EndsSlidePass ==
    pc = "slide" /\ (pc' # "slide" \/ ctl'.round # ctl.round \/ ctl'.pass # ctl.pass)

\* C24 (as claimed): the refinement loop stops at the end of the first round
\* in which the gap slider moved no vertex; no crossing reducer pass and no
\* gap slider pass follows such a round.
C24_StopsAfterQuietRound ==
    [][(EndsSlidePass /\ pc' # "panic" /\ ctl.pass = 0
            /\ layouts[cur].layers = ctl.levels /\ layouts'[cur].layers = ctl.levels
            /\ (pc' # "slide" \/ ctl'.round # ctl.round)) =>
          pc' \notin {"cross", "slide"}]_vars

\* C25 (as claimed): after the initial assignment over a topological order
\* every vertex without predecessors has level 0, every other vertex has
\* level 1 + the maximum level of its predecessors, and the grid has exactly
\* the levels 0 .. maximum assigned level.
C25_InitialLevels ==
    pc = "move_up" =>
        LET G == graphs[cur]
            st == layouts[cur]
        IN  /\ \A v \in NodesOf(G) :
                 st.level_of_node[v] =
                     IF Predecessors(G, v) = {} THEN 0
                     ELSE 1 + Max({st.level_of_node[p] : p \in Predecessors(G, v)})
            /\ Len(st.layers) = 1 + Max({st.level_of_node[v] : v \in NodesOf(G)})

\* C26 (as claimed): when the Leveler finishes, every vertex with
\* predecessors is on the level one greater than the maximum level of its
\* predecessors, and no empty level lies between two occupied levels, for
\* every numbering of the vertices.
C26_LevelsTight ==
    pc = "center" =>
        LET G == graphs[cur]
            st == layouts[cur]
            occupied == OccupiedLevels(st.layers)
        IN  /\ \A v \in NodesOf(G) :
                 Predecessors(G, v) # {} =>
                     st.level_of_node[v] = 1 + Max({st.level_of_node[p] : p \in Predecessors(G, v)})
            /\ \A l \in Min(occupied) .. Max(occupied) : l \in occupied

\* identifiers against the topological order, and a vertex whose
\* predecessors are on different levels
C26_Witness ==
    /\ pc = "center"
    /\ \E e \in graphs[cur] : e[1] > e[2]
    /\ \E v \in NodesOf(graphs[cur]) : \E p, q \in Predecessors(graphs[cur], v) :
         layouts[cur].level_of_node[p] < layouts[cur].level_of_node[q]
    /\ \A v \in NodesOf(graphs[cur]) :
         Predecessors(graphs[cur], v) # {} =>
             layouts[cur].level_of_node[v] =
                 1 + Max({layouts[cur].level_of_node[p] : p \in Predecessors(graphs[cur], v)})

\* the length of the longest level before padding: the largest number of
\* vertices on one level
MaxLen(layers) == Max({Occupied(layers[l]) : l \in DOMAIN layers})

ColumnsInRange(st) ==
    /\ \A l \in DOMAIN st.layers : Len(st.layers[l]) >= 1 /\ st.layers[l][1] = NONE
    /\ \A l \in DOMAIN st.layers : \A k \in DOMAIN st.layers[l] :
         st.layers[l][k] # NONE => k - 1 <= MaxLen(st.layers)

\* C27: in every state of the refinement loop column 0 of every level is
\* EMPTY and no vertex has a column greater than max_len; no step of the loop
\* fails and no step changes the length of a level.
C27_ColumnsStayInRange ==
    [][(pc = "cross" \/ pc = "slide") =>
          /\ ColumnsInRange(layouts[cur])
          /\ pc' \in {"cross", "slide", "roots"}
          /\ ColumnsInRange(layouts'[cur])
          /\ \A l \in DOMAIN layouts[cur].layers :
               Len(layouts'[cur].layers[l]) = Len(layouts[cur].layers[l])]_vars

\* the gap slider has moved a vertex to the right into column max_len
C27_Witness ==
    /\ pc = "slide"
    /\ \E l \in DOMAIN ctl.levels : \E k \in DOMAIN ctl.levels[l] :
         /\ k = MaxLen(ctl.levels)
         /\ ctl.levels[l][k] # NONE
         /\ layouts[cur].layers[l][k] = NONE
         /\ layouts[cur].layers[l][k + 1] = ctl.levels[l][k]

\* C28: a gap slider step never changes the left-to-right order of the
\* vertices of a level: two vertices a, b of one level with
\* index_of_node[a] < index_of_node[b] before the step are in that order
\* after it, and so after every gap slider pass.
C28_SliderKeepsOrder ==
    [][(pc = "slide" /\ pc' # "panic") =>
          \A a, b \in NodesOf(graphs[cur]) :
              (/\ layouts[cur].level_of_node[a] = layouts[cur].level_of_node[b]
               /\ layouts[cur].index_of_node[a] < layouts[cur].index_of_node[b]) =>
                  /\ layouts'[cur].level_of_node[a] = layouts'[cur].level_of_node[b]
                  /\ layouts'[cur].index_of_node[a] < layouts'[cur].index_of_node[b]]_vars

\* the slider has moved a vertex of a level that holds several vertices
C28_Witness ==
    /\ pc = "slide"
    /\ \E l \in DOMAIN ctl.levels :
         /\ layouts[cur].layers[l] # ctl.levels[l]
         /\ Occupied(ctl.levels[l]) >= 2
         /\ Somes(layouts[cur].layers[l]) = Somes(ctl.levels[l])

\* C29: without roots-to-top, in every returned component level 0 of the
\* final grid is empty and every source is on level 1, so the offset is 1,
\* every source is emitted with y = 0 and every vertex with a predecessor
\* with y < 0.
C29_SourcesOnLevelOne ==
    (Returned /\ ~global_tasks_in_first_row) =>
        \A i \in Components :
            LET G == graphs[i]
                st == layouts[i]
            IN  /\ Occupied(At(st.layers, 0)) = 0
                /\ Offset(st.layers) = 1
                /\ \A v \in NodesOf(G) :
                     /\ v \in DOMAIN result[i].layout
                     /\ IF Predecessors(G, v) = {}
                        THEN /\ st.level_of_node[v] = 1
                             /\ SlotsOf(st.layers, v) # {}
                             /\ \A s \in SlotsOf(st.layers, v) : s[1] = 1
                             /\ result[i].layout[v][2] = 0
                        ELSE result[i].layout[v][2] < 0

C29_Witness ==
    /\ Returned
    /\ ~global_tasks_in_first_row
    /\ \E i \in Components :
         /\ Cardinality(graphs[i]) >= 2
         /\ \E v \in NodesOf(graphs[i]) : result[i].layout[v][2] < 0 - node_size * SeparationFactor

\* the edges the generator starts from
GeneratedEdges == with_degree(gen.n, gen.k).edges

\* number of edges on the path from the root of the tree E down to v
RECURSIVE DepthOfVertex(_, _)
DepthOfVertex(E, v) ==
    LET up == {E[i][1] : i \in {j \in DOMAIN E : E[j][2] = v}}
    IN  IF up = {} THEN 0 ELSE 1 + Max({DepthOfVertex(E, p) : p \in up})

\* number of edges on the path from v down to the root of the upside-down tree E
RECURSIVE HeightOfVertex(_, _)
HeightOfVertex(E, v) ==
    LET down == {E[i][2] : i \in {j \in DOMAIN E : E[j][1] = v}}
    IN  IF down = {} THEN 0 ELSE 1 + Max({HeightOfVertex(E, q) : q \in down})

\* the layer (counted from 1) of vertex v in a graph of n layers made of the
\* trees upper and lower: its level in the upper tree, or its level in the
\* lower tree, which stands on its root in layer n
LayerOfVertex(n, upper, lower, v) ==
    IF v \in NodesOf(Range(upper))
    THEN 1 + DepthOfVertex(upper, v)
    ELSE n - HeightOfVertex(lower, v)

\* C30: add_random_edge_in_layer(l) leaves the edge list as it is or appends
\* exactly one edge; an appended edge was not in the list, its tail is a
\* vertex of layer l and its head a vertex of layer l + 1, and 1 < l < n - 1;
\* the call ends with the append.
C30_AddRandomEdgeInLayer ==
    [][(pc = "add_random_edge_in_layer" \/ pc = "try") =>
          \/ gen'.edges = gen.edges
          \/ /\ Len(gen'.edges) = Len(gen.edges) + 1
             /\ SubSeq(gen'.edges, 1, Len(gen.edges)) = gen.edges
             /\ pc' = "add_random_edges_in_layer"
             /\ 1 < gen.layer /\ gen.layer < gen.n - 1
             /\ LET e == gen'.edges[Len(gen'.edges)]
                    generated == GeneratedEdges
                    half == geo_series(gen.k, DivCeil(gen.n, 2)) - 1
                    upper == SubSeq(generated, 1, half)
                    lower == SubSeq(generated, half + 1, 2 * half)
                IN  /\ \A i \in DOMAIN gen.edges : gen.edges[i] # e
                    /\ e[1] \in NodesOf(Range(generated))
                    /\ e[2] \in NodesOf(Range(generated))
                    /\ LayerOfVertex(gen.n, upper, lower, e[1]) = gen.layer
                    /\ LayerOfVertex(gen.n, upper, lower, e[2]) = gen.layer + 1]_vars

\* a call appended an edge between layers l and l + 1 after attempts that
\* drew edges already in the list
C30_Witness ==
    /\ pc = "add_random_edges_in_layer"
    /\ gen.tries > 0
    /\ Len(gen.edges) = Len(GeneratedEdges) + 1
    /\ 1 < gen.layer /\ gen.layer < gen.n - 1
====
